---- MODULE Spec2Model ----
(***************************************************************************)
(* A model of src/inheritance.js: Class.create and its Helper functions    *)
(* (parseArgs, inherit, extend, wrap, hasFnSuperCall, isFn), together with *)
(* the part of the host language they rest on: property lookup along the   *)
(* prototype chain, typeof, `new`, method calls and exceptions.            *)
(***************************************************************************)
EXTENDS Integers, Sequences, FiniteSets, TLC

\* ------------------------------------------------------------------ bounds
MaxArgs    == 4     \* longest argument list handed to Class.create
MaxClasses == 3     \* classes made by Class.create in one behaviour
MaxInst    == 1     \* instances made with `new` in one behaviour
MaxDepth   == 8     \* call-stack limit of the engine (RangeError beyond it)
MaxNewClasses   == 2    \* classes of one behaviour of SpecNew
MaxShapeClasses == 2    \* classes of one behaviour of SpecShape

\* ------------------------------------------------------------------ values
\* Every value of the host language is one record shape, so that any two
\* values can be compared.
V(k, a, b, n) == [k |-> k, a |-> a, b |-> b, n |-> n]

Absent    == V("absent", 0, 0, "")       \* no own property under a name
Undef     == V("undefined", 0, 0, "")
Null      == V("null", 0, 0, "")
Num       == V("number", 5, 0, "")
Str       == V("string", 0, 0, "s")
Obj(o)    == V("object", o, 0, "")       \* reference to heap[o]
Fn(f)     == V("fn", f, 0, "")           \* a function written by the user
Cls(c)    == V("class", c, 0, "")        \* the constructor made by create
Noop(c)   == V("noop", c, 0, "")         \* `function () {}` of line 206
Foreign   == V("foreign", 0, 0, "")      \* a constructor not made by create
Native(n) == V("native", 0, 0, n)        \* a built-in function
ObjProto  == V("objproto", 0, 0, "")     \* Object.prototype
\* the closure returned by Helper.wrap(fnName, fn, __super__)
Wrapper(fnName, fn, sup) == V("wrapper", fn.a, sup.a, fnName)


Names == {"m", "n", "init", "constructor", "super", "prototype",
          "__super__", "s", "toString"}

Own(m) == [x \in Names |-> IF x \in DOMAIN m THEN m[x] ELSE Absent]
EmptyOwn == [x \in Names |-> Absent]

\* typeof
TypeOf(v) ==
    CASE v.k \in {"fn", "class", "noop", "foreign", "native", "wrapper"} -> "function"
      [] v.k \in {"object", "null", "objproto"} -> "object"
      [] v.k = "number" -> "number"
      [] v.k = "string" -> "string"
      [] OTHER -> "undefined"

\* the truth value of a value in `a && b`
Truthy(v) == v.k \notin {"undefined", "null", "absent"}

\* Helper.isFn
IsFn(o) == TypeOf(o) = "function"

\* ------------------------------------------------------ function sources
\* A function's source text is a sequence of statements.
Emit(x)  == [op |-> "emit",  x |-> x]     \* out += x
Super    == [op |-> "super", x |-> ""]    \* this.super()
CallM(x) == [op |-> "call",  x |-> x]     \* this.<x>()
Throw    == [op |-> "throw", x |-> ""]    \* throw new Error()
Note     == [op |-> "note",  x |-> ""]    \* text that holds .super, no call
Other(x) == [op |-> "other", x |-> x]     \* any statement without the token

FnSource == <<
    <<Emit("A")>>,                 \*  1  A.m
    <<CallM("m"), Emit("a")>>,     \*  2  A.n : calls this.m()
    <<Emit("I")>>,                 \*  3  A.init
    <<Super, Emit("B")>>,          \*  4  B.m, super first
    <<Emit("B"), Super>>,          \*  5  B.m, super last
    <<Super, Emit("b")>>,          \*  6  B.n
    <<Emit("J")>>,                 \*  7  B.init, no super call
    <<Super, Emit("C")>>,          \*  8  C.m, super first
    <<Emit("C"), Super>>,          \*  9  C.m, super last
    <<Note, Emit("X")>>,           \* 10  the token in a comment only
    <<Note, Throw>>,               \* 11  the token in a comment only; throws
    <<Super, Emit("S")>>,          \* 12  a static function with the token
    <<Super, Emit("K")>>           \* 13  an init that calls super
>>

\* fn.toString(), as the statements of the text
Source(v) ==
    CASE v.k = "fn" -> FnSource[v.a]
      [] v.k = "wrapper" -> <<Note, Note,
                              Other("var result = fn.apply(this, arguments)"),
                              Note, Other("return result")>>
      [] v.k = "class" -> <<Other("Helper.isFn(this.init) && this.init.apply(this, arguments)")>>
      [] v.k = "native" -> <<Other("[native code]")>>
      [] OTHER -> <<>>

\* A scan that looks for calls only (mutant of HasToken).
HasTokenCallsOnly(st) == st.op = "super"

\* whether a statement's text holds the characters `.super`
HasToken(st) == st.op \in {"super", "note"}

\* Helper.hasFnSuperCall
HasFnSuperCall(fn) ==
    IsFn(fn) /\ \E i \in 1..Len(Source(fn)) : HasToken(Source(fn)[i])

\* ------------------------------------------------------------------- state
VARIABLES
    heap,     \* the objects: [own : Names -> value, proto : value]
    cls,      \* the constructors made by create: [own : Names -> value]
    made,     \* made[c]: the parsed arguments class c was made from
    last,     \* the latest call of Class.create: its arguments and outcome
    insts,    \* the objects made with `new`, oldest first
    stack,    \* the call stack, innermost frame last
    out,      \* what the running top-level call has appended so far
    exc,      \* an exception is propagating, or has reached the top level
    cur       \* the top-level operation running or last run

vars == <<heap, cls, made, last, insts, stack, out, exc, cur>>

\* The object literals of the program that uses the library, and
\* Foreign.prototype.  They are heap[1..Len(Literals)] from the start and
\* nothing ever writes to them.
Lit(m) == [own |-> Own(m), proto |-> ObjProto]

LA  == 1      \* {m, n, init}           members of a root class
LB1 == 2      \* {m: super first, n}
LB2 == 3      \* {m: super last, init}
LC1 == 4      \* {m: super first}
LC2 == 5      \* {m: super last}
LX  == 6      \* {m, n: the token in a comment only}
LN  == 7      \* {init: 5}
LK  == 8      \* {constructor, toString, m: 5}
LS  == 9      \* {s, toString}          static members
LP  == 10     \* {prototype}            a static member named prototype
LI  == 11     \* {init: calls super}
ForeignProto == 12    \* Foreign.prototype

Literals == <<
    Lit(("m" :> Fn(1)) @@ ("n" :> Fn(2)) @@ ("init" :> Fn(3))),
    Lit(("m" :> Fn(4)) @@ ("n" :> Fn(6))),
    Lit(("m" :> Fn(5)) @@ ("init" :> Fn(7))),
    Lit(("m" :> Fn(8))),
    Lit(("m" :> Fn(9))),
    Lit(("m" :> Fn(10)) @@ ("n" :> Fn(11))),
    Lit(("init" :> Num)),
    Lit(("constructor" :> Fn(1)) @@ ("toString" :> Fn(4)) @@ ("m" :> Num)),
    Lit(("s" :> Fn(12)) @@ ("toString" :> Fn(12))),
    Lit(("prototype" :> Obj(LA))),
    Lit(("init" :> Fn(13))),
    Lit(("constructor" :> Foreign))
>>

\* ------------------------------------------------------------ property get
\* Object.prototype[name] and Function.prototype[name]
ObjectPrototype(name) ==
    CASE name = "constructor" -> Native("Object")
      [] name = "toString" -> Native("Object.prototype.toString")
      [] OTHER -> Undef

FunctionPrototype(name) ==
    CASE name = "constructor" -> Native("Function")
      [] name = "toString" -> Native("Function.prototype.toString")
      [] OTHER -> Undef

\* ref[name]: the own property, else the prototype chain's
RECURSIVE Get(_, _, _, _)
Get(h, cs, ref, name) ==
    CASE ref.k = "object" ->
           IF h[ref.a].own[name] # Absent THEN h[ref.a].own[name]
           ELSE Get(h, cs, h[ref.a].proto, name)
      [] ref.k = "class" ->
           IF cs[ref.a].own[name] # Absent THEN cs[ref.a].own[name]
           ELSE FunctionPrototype(name)
      [] ref.k = "foreign" ->
           IF name = "prototype" THEN Obj(ForeignProto) ELSE FunctionPrototype(name)
      [] ref.k = "objproto" -> ObjectPrototype(name)
      [] OTHER -> Undef

\* ref[name] = v: an own property of ref
Set(st, ref, name, v) ==
    CASE ref.k = "object" -> [st EXCEPT !.h[ref.a].own[name] = v]
      [] ref.k = "class" -> [st EXCEPT !.cs[ref.a].own[name] = v]
      [] OTHER -> st

\* props.hasOwnProperty(name), for the names `for (name in props)` visits
OwnNames(h, props) ==
    IF props.k = "object" THEN {x \in Names : h[props.a].own[x] # Absent} ELSE {}

\* ------------------------------------------------------------------ Helper
\* Helper.parseArgs.  ok = FALSE stands for `throw new TypeError`.
Parsed(parent, props, staticProps) ==
    [ok |-> TRUE, parent |-> parent, props |-> props, staticProps |-> staticProps]
InvalidArguments ==
    [ok |-> FALSE, parent |-> Undef, props |-> Undef, staticProps |-> Undef]

\* parseArgs with `=== 3` for `>= 3` (mutant of ParseArgs).
ParseArgsExactlyThree(args) ==
    CASE Len(args) = 1 ->
           IF TypeOf(args[1]) = "function" THEN Parsed(args[1], Undef, Undef)
           ELSE IF TypeOf(args[1]) = "object" THEN Parsed(Undef, args[1], Undef)
           ELSE InvalidArguments
      [] Len(args) = 2 ->
           IF TypeOf(args[1]) = "function" /\ TypeOf(args[2]) = "object"
           THEN Parsed(args[1], args[2], Undef)
           ELSE IF TypeOf(args[1]) = "object" /\ TypeOf(args[2]) = "object"
           THEN Parsed(Undef, args[1], args[2])
           ELSE InvalidArguments
      [] Len(args) = 3 ->
           IF \/ TypeOf(args[1]) # "function"
              \/ TypeOf(args[2]) # "object"
              \/ TypeOf(args[3]) # "object"
           THEN InvalidArguments
           ELSE Parsed(args[1], args[2], args[3])
      [] OTHER -> Parsed(Undef, Undef, Undef)

ParseArgs(args) ==
    CASE Len(args) = 1 ->
           IF TypeOf(args[1]) = "function" THEN Parsed(args[1], Undef, Undef)
           ELSE IF TypeOf(args[1]) = "object" THEN Parsed(Undef, args[1], Undef)
           ELSE InvalidArguments
      [] Len(args) = 2 ->
           IF TypeOf(args[1]) = "function" /\ TypeOf(args[2]) = "object"
           THEN Parsed(args[1], args[2], Undef)
           ELSE IF TypeOf(args[1]) = "object" /\ TypeOf(args[2]) = "object"
           THEN Parsed(Undef, args[1], args[2])
           ELSE InvalidArguments
      [] Len(args) >= 3 ->
           IF \/ TypeOf(args[1]) # "function"
              \/ TypeOf(args[2]) # "object"
              \/ TypeOf(args[3]) # "object"
           THEN InvalidArguments
           ELSE Parsed(args[1], args[2], args[3])
      [] OTHER -> Parsed(Undef, Undef, Undef)

\* Helper.wrap is Wrapper above; its body runs in EnterWrapper / LeaveWrapper.

\* Helper.extend, one round of its loop: obj[name] = ...
ExtendOne(st, obj, props, sup, name) ==
    IF /\ Truthy(sup)
       /\ HasFnSuperCall(Get(st.h, st.cs, props, name))
       /\ IsFn(Get(st.h, st.cs, obj, name))
    THEN Set(st, obj, name, Wrapper(name, Get(st.h, st.cs, props, name), sup))
    ELSE Set(st, obj, name, Get(st.h, st.cs, props, name))

\* Helper.extend: the loop over the own names of props
RECURSIVE ExtendLoop(_, _, _, _, _)
ExtendLoop(st, obj, props, sup, names) ==
    IF names = {} THEN st
    ELSE LET name == CHOOSE x \in names : TRUE
         IN  ExtendLoop(ExtendOne(st, obj, props, sup, name),
                        obj, props, sup, names \ {name})

Extend(st, obj, props, sup) ==
    ExtendLoop(st, obj, props, sup, OwnNames(st.h, props))

\* Helper.createObject: Object.create(prototype)
CreateObject(st, prototype) ==
    [st EXCEPT !.h = Append(st.h, [own |-> EmptyOwn, proto |-> prototype])]

\* inherit that shares the parent's prototype instead of delegating to it
\* (mutant of Inherit).
InheritShared(st, parent, child) ==
    LET s2 == Set(st, child, "prototype", Get(st.h, st.cs, parent, "prototype"))
        s3 == Set(s2, Get(s2.h, s2.cs, child, "prototype"), "constructor", child)
    IN  Set(s3, child, "__super__", Get(s3.h, s3.cs, parent, "prototype"))

\* Helper.inherit
Inherit(st, parent, child) ==
    LET s1 == CreateObject(st, Get(st.h, st.cs, parent, "prototype"))
        s2 == Set(s1, child, "prototype", Obj(Len(st.h) + 1))
        s3 == Set(s2, Get(s2.h, s2.cs, child, "prototype"), "constructor", child)
    IN  Set(s3, child, "__super__", Get(s3.h, s3.cs, parent, "prototype"))

\* ------------------------------------------------------------ Class.create
\* `var Class = function () {...}`: a new function and its prototype object
NewFunction(st) ==
    LET c == Len(st.cs) + 1
        o == Len(st.h) + 1
    IN  [h  |-> Append(st.h, [own |-> Own(("constructor" :> Cls(c))),
                               proto |-> ObjProto]),
         cs |-> Append(st.cs, [own |-> Own(("prototype" :> Obj(o)))])]

\* Class.create after parseArgs, lines 200-212: the constructor, its empty
\* init, the parent and the instance members
BuildMembers(st, p) ==
    LET Class == Cls(Len(st.cs) + 1)
        s1 == NewFunction(st)
        s2 == Set(s1, Get(s1.h, s1.cs, Class, "prototype"), "init", Noop(Class.a))
        s3 == IF Truthy(p.parent) THEN Inherit(s2, p.parent, Class) ELSE s2
    IN  IF Truthy(p.props)
        THEN Extend(s3, Get(s3.h, s3.cs, Class, "prototype"), p.props,
                    Get(s3.h, s3.cs, Class, "__super__"))
        ELSE s3

\* Class.create, lines 214-215: the static members
BuildStatics(st, p) ==
    IF Truthy(p.staticProps)
    THEN Extend(st, Cls(Len(st.cs)), p.staticProps, Undef)
    ELSE st

TypeError == V("TypeError", 0, 0, "Invalid arguments")

Create(args) ==
    /\ stack = <<>>
    /\ Len(cls) < MaxClasses
    /\ LET p == ParseArgs(args)
       IN  IF p.ok
           THEN LET sm == BuildMembers([h |-> heap, cs |-> cls], p)
                    st == BuildStatics(sm, p)
                IN  /\ heap' = st.h
                    /\ cls' = st.cs
                    /\ made' = Append(made,
                           [parent |-> p.parent, props |-> p.props,
                            staticProps |-> p.staticProps,
                            table |-> sm.cs[Len(sm.cs)].own["prototype"]])
                    /\ last' = [args |-> args, res |-> Cls(Len(cls) + 1)]
           ELSE /\ last' = [args |-> args, res |-> TypeError]
                /\ UNCHANGED <<heap, cls, made>>
    /\ UNCHANGED <<insts, stack, out, exc, cur>>

Idle == [op |-> "none", this |-> 0, name |-> "", c |-> 0, slot |-> Undef]

Init ==
    /\ heap = Literals
    /\ cls = <<>>
    /\ made = <<>>
    /\ last = [args |-> <<>>, res |-> Undef]
    /\ insts = <<>>
    /\ stack = <<>>
    /\ out = <<>>
    /\ exc = FALSE
    /\ cur = Idle

\* ------------------------------------------------- Class.create's arguments
\* One value of every kind Class.create may be handed.
ArgValues == {Foreign, Obj(LB1), Null, Num, Str, Undef}

\* every list over S of length 0..n
Lists(S, n) == UNION {[1..k -> S] : k \in 0..n}

\* The program's first call of Class.create, with any argument list.
CreateAny ==
    /\ last.res = Undef
    /\ \E args \in Lists(ArgValues, MaxArgs) : Create(args)

NextArgs == CreateAny

SpecArgs == Init /\ [][NextArgs]_vars

\* ---------------------------------------------------------------- calling
Frame(t, v, this, saved) == [t |-> t, v |-> v, this |-> this, pc |-> 1, saved |-> saved]

Top == stack[Len(stack)]
Pop == SubSeq(stack, 1, Len(stack) - 1)

\* A wrapper that reads the parent method from the receiver's own chain
\* (mutant of EnterWrapper).
EnterWrapperFromThis(h, cs, w, this) ==
    [h EXCEPT ![this].own["super"] = Get(h, cs, h[this].proto, w.n)]

\* Helper.wrap, lines 54-55: the wrapper's first two statements
EnterWrapper(h, cs, w, this) ==
    [h EXCEPT ![this].own["super"] = Get(h, cs, Obj(w.b), w.n)]

\* A wrapper that clears the slot instead of restoring it (mutant of
\* RestoreSuper).
RestoreSuperClear(h, frame) ==
    [h EXCEPT ![frame.this].own["super"] = Undef]

\* Helper.wrap, line 57: this.super = currentSuperMethod
RestoreSuper(h, frame) ==
    [h EXCEPT ![frame.this].own["super"] = frame.saved]

\* v.apply(this): a value that is no function raises a TypeError, a stack
\* that is full a RangeError; a user function gets a frame; a wrapper saves
\* the slot, sets it and applies the wrapped function (lines 54-56);
\* built-ins and the empty function return at once.
RECURSIVE Invoke(_, _, _, _, _)
Invoke(h, cs, sk, v, this) ==
    IF ~IsFn(v) \/ Len(sk) >= MaxDepth
    THEN [h |-> h, sk |-> sk, exc |-> TRUE]
    ELSE CASE v.k = "fn" ->
                [h |-> h, sk |-> Append(sk, Frame("fn", v, this, Undef)), exc |-> FALSE]
           [] v.k = "wrapper" ->
                Invoke(EnterWrapper(h, cs, v, this), cs,
                       Append(sk, Frame("wrapper", v, this,
                                        Get(h, cs, Obj(this), "super"))),
                       Fn(v.a), this)
           [] OTHER -> [h |-> h, sk |-> sk, exc |-> FALSE]

\* `new Class()`: the new object delegates to Class.prototype
Allocate(h, cs, c) ==
    LET p == Get(h, cs, Cls(c), "prototype")
    IN  Append(h, [own |-> EmptyOwn,
                   proto |-> IF p.k = "object" THEN p ELSE ObjProto])

\* The constructor without its isFn guard (mutant of Construct).
ConstructUnguarded(h, cs, sk, this) ==
    Invoke(h, cs, sk, Get(h, cs, Obj(this), "init"), this)

\* The constructor's body, line 202.
Construct(h, cs, sk, this) ==
    IF IsFn(Get(h, cs, Obj(this), "init"))
    THEN Invoke(h, cs, sk, Get(h, cs, Obj(this), "init"), this)
    ELSE [h |-> h, sk |-> sk, exc |-> FALSE]

\* new Class(): lines 200-203
New(c) ==
    /\ stack = <<>>
    /\ Len(insts) < MaxInst
    /\ LET this == Len(heap) + 1
           r == Construct(Allocate(heap, cls, c), cls,
                          <<Frame("ctor", Cls(c), this, Undef)>>, this)
       IN  /\ heap' = r.h
           /\ stack' = r.sk
           /\ exc' = r.exc
           /\ insts' = Append(insts, [obj |-> this, c |-> c, ok |-> FALSE])
           /\ cur' = [op |-> "new", this |-> this, name |-> "init", c |-> c,
                      slot |-> Undef]
    /\ out' = <<>>
    /\ UNCHANGED <<cls, made, last>>

\* the constructor returns: the program holds the new instance
EndNew ==
    /\ stack # <<>> /\ ~exc
    /\ Top.t = "ctor"
    /\ stack' = Pop
    /\ insts' = [insts EXCEPT ![Len(insts)].ok = TRUE]
    /\ UNCHANGED <<heap, cls, made, last, out, exc, cur>>

\* instance.name() called by the program
CallNames == {"m", "n"}

Call(i, name) ==
    /\ stack = <<>>
    /\ insts[i].ok
    /\ LET this == insts[i].obj
           r == Invoke(heap, cls, <<>>, Get(heap, cls, Obj(this), name), this)
       IN  /\ heap' = r.h
           /\ stack' = r.sk
           /\ exc' = r.exc
           /\ cur' = [op |-> "call", this |-> this, name |-> name,
                      c |-> insts[i].c,
                      slot |-> Get(heap, cls, Obj(this), "super")]
    /\ out' = <<>>
    /\ UNCHANGED <<cls, made, last, insts>>

\* the running user function executes its next statement
Exec ==
    /\ stack # <<>> /\ ~exc
    /\ Top.t = "fn"
    /\ Top.pc <= Len(Source(Top.v))
    /\ LET st == Source(Top.v)[Top.pc]
           sk == [stack EXCEPT ![Len(stack)].pc = @ + 1]
           r  == CASE st.op = "super" ->
                        Invoke(heap, cls, sk, Get(heap, cls, Obj(Top.this), "super"), Top.this)
                   [] st.op = "call" ->
                        Invoke(heap, cls, sk, Get(heap, cls, Obj(Top.this), st.x), Top.this)
                   [] st.op = "throw" -> [h |-> heap, sk |-> sk, exc |-> TRUE]
                   [] OTHER -> [h |-> heap, sk |-> sk, exc |-> FALSE]
       IN  /\ heap' = r.h
           /\ stack' = r.sk
           /\ exc' = r.exc
           /\ out' = IF st.op = "emit" THEN Append(out, st.x) ELSE out
    /\ UNCHANGED <<cls, made, last, insts, cur>>

\* the running user function reaches its end and returns
Return ==
    /\ stack # <<>> /\ ~exc
    /\ Top.t = "fn"
    /\ Top.pc > Len(Source(Top.v))
    /\ stack' = Pop
    /\ UNCHANGED <<heap, cls, made, last, insts, out, exc, cur>>

\* Helper.wrap, lines 57-58: fn.apply has returned
LeaveWrapper ==
    /\ stack # <<>> /\ ~exc
    /\ Top.t = "wrapper"
    /\ heap' = RestoreSuper(heap, Top)
    /\ stack' = Pop
    /\ UNCHANGED <<cls, made, last, insts, out, exc, cur>>

\* An exception leaves the innermost frame: no statement of it runs again.
\* Nothing in src/inheritance.js catches (there is no try), so a wrapper's
\* frame is left like any other.
Unwind ==
    /\ stack # <<>> /\ exc
    /\ stack' = Pop
    /\ UNCHANGED <<heap, cls, made, last, insts, out, exc, cur>>

\* ----------------------------------------------------------- the program
\* The classes of a program that calls methods: a parent or none, and one
\* of the member literals or none.
Parents == {Cls(c) : c \in 1..Len(cls)}
Members == {Obj(LA), Obj(LB1), Obj(LB2), Obj(LC1), Obj(LC2), Obj(LX)}

CreateClass ==
    \/ \E props \in Members : Create(<<props>>)
    \/ \E parent \in Parents : Create(<<parent>>)
    \/ \E parent \in Parents, props \in Members : Create(<<parent, props>>)

NewInstance == \E c \in 1..Len(cls) : New(c)

CallMethod == \E i \in 1..Len(insts), name \in CallNames : Call(i, name)

Next ==
    \/ CreateClass
    \/ NewInstance
    \/ CallMethod
    \/ Exec
    \/ Return
    \/ LeaveWrapper
    \/ EndNew
    \/ Unwind

Spec == Init /\ [][Next]_vars

\* A program that makes classes and instances of them: the parent may be a
\* constructor that Class.create did not make, an init may be no function.
InitParents == {Foreign} \cup {Cls(c) : c \in 1..Len(cls)}
InitMembers == {Obj(LA), Obj(LB1), Obj(LB2), Obj(LN), Obj(LI)}

CreateWithInit ==
    /\ Len(cls) < MaxNewClasses
    /\ \/ \E props \in InitMembers : Create(<<props>>)
       \/ \E parent \in InitParents : Create(<<parent>>)
       \/ \E parent \in InitParents, props \in InitMembers : Create(<<parent, props>>)

NextNew ==
    \/ CreateWithInit
    \/ NewInstance
    \/ Exec
    \/ Return
    \/ LeaveWrapper
    \/ EndNew
    \/ Unwind

SpecNew == Init /\ [][NextNew]_vars

\* A program that only makes classes, with static members, with members
\* named constructor and toString, and with a static member named prototype.
ShapeMembers == {Obj(LA), Obj(LB1), Obj(LX), Obj(LK)}
ShapeStatics == {Obj(LS), Obj(LP), Obj(LB1)}

CreateShape ==
    /\ Len(cls) < MaxShapeClasses
    /\ \/ Create(<<>>)
       \/ \E props \in ShapeMembers : Create(<<props>>)
       \/ \E parent \in InitParents : Create(<<parent>>)
       \/ \E parent \in InitParents, props \in ShapeMembers : Create(<<parent, props>>)
       \/ \E props \in ShapeMembers, statics \in ShapeStatics :
             Create(<<props, statics>>)
       \/ \E parent \in InitParents, props \in ShapeMembers, statics \in ShapeStatics :
             Create(<<parent, props, statics>>)

NextShape == CreateShape

SpecShape == Init /\ [][NextShape]_vars

\* =================================================== the claims, under Spec
\* what class c was handed under a name, Absent if nothing
Supplied(c, name) ==
    IF made[c].props.k = "object" THEN heap[made[c].props.a].own[name] ELSE Absent

\* the classes from c up to its root
RECURSIVE ChainOf(_)
ChainOf(c) ==
    IF made[c].parent.k = "class" THEN <<c>> \o ChainOf(made[c].parent.a) ELSE <<c>>

\* the top-level operation has ended
Ended(op) == stack = <<>> /\ cur.op = op

\* the letters a text appends itself, in order
Letters(src) ==
    LET e == SelectSeq(src, LAMBDA st : st.op = "emit")
    IN  [i \in 1..Len(e) |-> e[i].x]

\* the value the wrapper of frame w must have in the slot while its function runs
ParentImpl(w) == Get(heap, cls, Obj(w.b), w.n)

SuperSlot(this) == Get(heap, cls, Obj(this), "super")

\* C1: whenever a wrapper's call ends, by return or by an exception passing
\* through it, the instance's super slot is again what it was before the call.
C1_SlotRestoredOnEveryExit ==
    [][(stack # <<>> /\ Top.t = "wrapper" /\ stack' = Pop)
        => Get(heap', cls', Obj(Top.this), "super") = Top.saved]_vars

CallsSuperOnce(src) ==
    /\ Cardinality({i \in 1..Len(src) : src[i].op = "super"}) = 1
    /\ \A i \in 1..Len(src) : src[i].op \in {"super", "emit"}

SuperChain(c) ==
    LET ch == ChainOf(c)
    IN  /\ Len(ch) >= 2
        /\ made[ch[Len(ch)]].parent = Undef
        /\ \A i \in 1..Len(ch) :
              /\ Supplied(ch[i], "m").k = "fn"
              /\ IF i < Len(ch)
                 THEN CallsSuperOnce(Source(Supplied(ch[i], "m")))
                 ELSE \A j \in 1..Len(Source(Supplied(ch[i], "m"))) :
                         Source(Supplied(ch[i], "m"))[j].op = "emit"

RECURSIVE ExpectedTrace(_)
ExpectedTrace(c) ==
    LET src == Source(Supplied(c, "m"))
    IN  IF made[c].parent.k # "class" THEN Letters(src)
        ELSE LET k == CHOOSE i \in 1..Len(src) : src[i].op = "super"
             IN  Letters(SubSeq(src, 1, k - 1))
                   \o ExpectedTrace(made[c].parent.a)
                   \o Letters(SubSeq(src, k + 1, Len(src)))

MembersOfChain(c) == [i \in 1..Len(ChainOf(c)) |-> made[ChainOf(c)[i]].props.a]

\* C3: in a chain of depth 2 or more whose every level defines m, the root
\* without a super call and every other level with one, a call of m on an
\* instance of the most-derived class appends each level's letters around its
\* parent's, in the place of its super call: "ABC" when every level calls
\* super first, "CBA" when every level calls it last.
C3_SuperChainOrder ==
    (Ended("call") /\ cur.name = "m" /\ SuperChain(cur.c))
      => /\ ~exc
         /\ out = ExpectedTrace(cur.c)
         /\ MembersOfChain(cur.c) = <<LC1, LB1, LA>> => out = <<"A", "B", "C">>
         /\ MembersOfChain(cur.c) = <<LC2, LB2, LA>> => out = <<"C", "B", "A">>
         /\ MembersOfChain(cur.c) = <<LB1, LA>> => out = <<"A", "B">>

C3_Witness ==
    /\ Ended("call") /\ cur.name = "m" /\ ~exc
    /\ MembersOfChain(cur.c) = <<LC1, LB1, LA>>
    /\ out = <<"A", "B", "C">>

WrapperFrames == {i \in 1..Len(stack) : stack[i].t = "wrapper"}

\* C4: while no exception is propagating, every wrapper whose call is still
\* running has its parent implementation in force: in the super slot if no
\* later wrapper is running, else saved in the next wrapper's frame, to be put
\* back when that one returns (last in, first out).
C4_NestedSuperSlots ==
    ~exc =>
      \A i \in WrapperFrames :
         LET above == {j \in WrapperFrames : j > i}
         IN  IF above = {}
             THEN SuperSlot(stack[i].this) = ParentImpl(stack[i].v)
             ELSE \E j \in above :
                    /\ \A k \in above : j <= k
                    /\ stack[j].saved = ParentImpl(stack[i].v)

\* B.n called super, A.n called the wrapped m, m has returned, and B.n runs on.
C4_Witness ==
    /\ ~exc /\ stack # <<>>
    /\ Top.t = "fn" /\ Top.v = Fn(6) /\ Top.pc = 2
    /\ out = <<"A", "B", "a">>
    /\ SuperSlot(Top.this) = Fn(2)

NeverCallsSuper(v) ==
    /\ v.k = "wrapper"
    /\ \A i \in 1..Len(FnSource[v.a]) : FnSource[v.a][i].op # "super"

\* C10: a call of a method that was wrapped although its text never calls the
\* super slot leaves the slot as the caller last saw it, as the same method
\* without a wrapper does.
C10_FalsePositiveTransparent ==
    (Ended("call") /\ NeverCallsSuper(Get(heap, cls, Obj(cur.this), cur.name)))
      => SuperSlot(cur.this) = cur.slot

\* ================================================ the claims, under SpecNew
\* the init nearest to class c in its chain, as the classes were handed them:
\* the empty function of a root, nothing under a foreign parent
RECURSIVE FirstInit(_)
FirstInit(c) ==
    IF Supplied(c, "init") # Absent THEN Supplied(c, "init")
    ELSE IF made[c].parent.k = "class" THEN FirstInit(made[c].parent.a)
    ELSE IF Truthy(made[c].parent) THEN Undef
    ELSE Noop(c)

\* a function that only appends letters (the empty function appends none)
Plain(v) ==
    \/ v.k = "noop"
    \/ v.k = "fn" /\ \A i \in 1..Len(FnSource[v.a]) : FnSource[v.a][i].op = "emit"

PlainLetters(v) == IF v.k = "fn" THEN Letters(FnSource[v.a]) ELSE <<>>

\* C6 as stated: every construction runs one initializer, the init found
\* first along the chain, once, and does not fail.
C6_ExactlyOneInit ==
    Ended("new") =>
       /\ IsFn(FirstInit(cur.c))
       /\ Plain(FirstInit(cur.c)) => ~exc /\ out = PlainLetters(FirstInit(cur.c))

\* C6 as amended: the init found first along the chain runs once, and no
\* other, when it is a function; when none is found or it is no function,
\* no initializer runs; the construction succeeds in both cases.
C6_FirstCallableInit ==
    Ended("new") =>
       /\ Plain(FirstInit(cur.c)) =>
            /\ ~exc
            /\ out = PlainLetters(FirstInit(cur.c))
            /\ insts[Len(insts)].ok
       /\ ~IsFn(FirstInit(cur.c)) =>
            /\ ~exc
            /\ out = <<>>
            /\ insts[Len(insts)].ok

\* a subclass without an init of its own has run its parent's
C6_Witness ==
    /\ Ended("new") /\ ~exc
    /\ Len(ChainOf(cur.c)) = 2
    /\ Supplied(cur.c, "init") = Absent
    /\ FirstInit(cur.c) = Fn(3)
    /\ out = <<"I">>

\* ============================================== the claims, under SpecShape
StaticSupplied(c, name) ==
    IF made[c].staticProps.k = "object"
    THEN heap[made[c].staticProps.a].own[name] ELSE Absent

Classes == 1..Len(cls)

\* the member table instances of class c delegate to
TableOf(c) == Get(heap, cls, Cls(c), "prototype")

\* the parent's member table
ParentTable(c) == Get(heap, cls, made[c].parent, "prototype")

\* the text of v holds the token
TextHasToken(v) ==
    v.k = "fn" /\ \E i \in 1..Len(FnSource[v.a]) : FnSource[v.a][i].op \in {"super", "note"}

MustWrap(c, x) ==
    /\ Truthy(made[c].parent)
    /\ IsFn(Supplied(c, x))
    /\ TextHasToken(Supplied(c, x))
    /\ x = "constructor" \/ IsFn(Get(heap, cls, ParentTable(c), x))

\* C7: the table create filled holds a wrapper under a name exactly when a
\* parent table was supplied, the member is callable, its text holds the
\* token and the table exposed a callable under the name (its own constructor
\* or one reached through the parent's table); else it holds the member
\* itself.  A static member is stored itself on the class value.
C7_WrapIffFourConditions ==
    \A c \in Classes : \A x \in Names :
       /\ Supplied(c, x) # Absent =>
            heap[made[c].table.a].own[x] =
               IF MustWrap(c, x)
               THEN V("wrapper", Supplied(c, x).a, ParentTable(c).a, x)
               ELSE Supplied(c, x)
       /\ StaticSupplied(c, x) # Absent => cls[c].own[x] = StaticSupplied(c, x)

\* one class wraps a method whose text has the token in a comment only, and a
\* root class stores a method that calls super as it is
C7_Witness ==
    /\ \E c \in Classes :
         /\ Supplied(c, "m") = Fn(10)
         /\ heap[made[c].table.a].own["m"].k = "wrapper"
    /\ \E c \in Classes :
         /\ Supplied(c, "m") = Fn(4)
         /\ heap[made[c].table.a].own["m"] = Fn(4)

IdentityLink(c) == Get(heap, cls, TableOf(c), "constructor")

\* C8: the identity link of every class's member table names the
\* class, whatever the members are called.
C8_IdentityLinkAlways == \A c \in Classes : IdentityLink(c) = Cls(c)

\* C9: a call of create leaves every class and every object that existed as
\* they were.
C9_ParentUnchanged ==
    [][Len(cls') > Len(cls) =>
          /\ \A c \in 1..Len(cls) : cls'[c] = cls[c]
          /\ \A o \in 1..Len(heap) : heap'[o] = heap[o]]_vars

\* a subclass with static members overrides a name its parent holds
C9_Witness ==
    \E c \in Classes :
       /\ made[c].parent.k = "class"
       /\ made[c].staticProps.k = "object"
       /\ Supplied(c, "m") # Absent
       /\ Supplied(made[c].parent.a, "m") = Fn(1)
       /\ Get(heap, cls, TableOf(made[c].parent.a), "m") = Fn(1)

RECURSIVE ChainObjs(_)
ChainObjs(ref) ==
    IF ref.k = "object" THEN {ref} \cup ChainObjs(heap[ref.a].proto) ELSE {}

InstanceValues ==
    {Supplied(c, x) : c \in Classes, x \in Names}

WrappersInTables ==
    {w \in {heap[o].own[x] : o \in 1..Len(heap), x \in Names} : w.k = "wrapper"}

StaticKeptApart(c, x) ==
    LET v == StaticSupplied(c, x)
    IN  /\ cls[c].own[x] = v
        /\ (Supplied(c, x) = Absent /\ x \notin {"constructor", "init"} /\ TableOf(c).k = "object")
              => heap[TableOf(c).a].own[x] = Absent
        /\ \A d \in Classes : v \notin ChainObjs(TableOf(d))
        /\ v \notin InstanceValues =>
              /\ \A d \in Classes, y \in Names : Get(heap, cls, TableOf(d), y) # v
              /\ \A w \in WrappersInTables : ParentImpl(w) # v

\* C5: a static member is on the class value as supplied; the member table
\* holds nothing under its name unless the instance members do; it is no
\* object of any class's delegation chain; and unless it was also supplied as
\* an instance member, no lookup in any class's member table yields it and no
\* wrapper has it as the parent implementation.
C5_StaticsNeverInChain ==
    \A c \in Classes : \A x \in Names :
       StaticSupplied(c, x) # Absent => StaticKeptApart(c, x)

\* =============================================== the claims, under SpecArgs
\* the descriptor the rule of the specification gives an argument list;
\* nullIsMapping: whether null counts as a mapping
Callable(v) == v.k \in {"fn", "class", "noop", "foreign", "native", "wrapper"}
Mapping(v, nullIsMapping) == v.k = "object" \/ (nullIsMapping /\ v.k = "null")

Classified(args, nm) ==
    CASE Len(args) = 0 -> Parsed(Undef, Undef, Undef)
      [] Len(args) = 1 /\ Callable(args[1]) -> Parsed(args[1], Undef, Undef)
      [] Len(args) = 1 /\ Mapping(args[1], nm) -> Parsed(Undef, args[1], Undef)
      [] Len(args) = 2 /\ Callable(args[1]) /\ Mapping(args[2], nm) ->
           Parsed(args[1], args[2], Undef)
      [] Len(args) = 2 /\ Mapping(args[1], nm) /\ Mapping(args[2], nm) ->
           Parsed(Undef, args[1], args[2])
      [] Len(args) >= 3 /\ Callable(args[1]) /\ Mapping(args[2], nm)
                        /\ Mapping(args[3], nm) ->
           Parsed(args[1], args[2], args[3])
      [] OTHER -> InvalidArguments

\* the first call of create ended as descriptor e says
EndedAs(e) ==
    IF e.ok
    THEN /\ last.res = Cls(1)
         /\ Len(cls) = 1
         /\ made[1].parent = e.parent
         /\ made[1].props = e.props
         /\ made[1].staticProps = e.staticProps
         /\ (cls[1].own["__super__"] # Absent) = Callable(e.parent)
         /\ (heap[made[1].table.a].own["m"] = Fn(4)) = (e.props.k = "object")
         /\ (cls[1].own["m"] = Fn(4)) = (e.staticProps.k = "object")
    ELSE /\ last.res = TypeError
         /\ cls = <<>>
         /\ heap = Literals

\* C2 as stated: null is one of the other kinds of value
C2_AsStated == last.res # Undef => EndedAs(Classified(last.args, FALSE))

\* C2 as amended: null is classified as a mapping
C2_NullIsAMapping == last.res # Undef => EndedAs(Classified(last.args, TRUE))

\* four arguments, the fourth ignored, null for the instance members
C2_Witness ==
    /\ last.args = <<Foreign, Null, Obj(LB1), Str>>
    /\ last.res = Cls(1)
    /\ cls[1].own["m"] = Fn(4)

====

